---- MODULE Spec2Model ----
(***************************************************************************)
(* State-machine model of exp_tf.py: the generation loop (Model.generate), *)
(* the training loop (Model.train), the window builder (stagger) and the   *)
(* per-pitch input construction of the time-axis block.                    *)
(*                                                                         *)
(* Four specifications share the module, one per part of the program:      *)
(*   SpecGenerate  Model.generate, called repeatedly as main does          *)
(*   SpecTrain     Model.train                                             *)
(*   SpecStagger   stagger, applied to bounded frame sequences             *)
(*   SpecTimeAxis  the per-pitch loop of time_axis_block                   *)
(***************************************************************************)
EXTENDS Integers, Sequences, FiniteSets, TLC

VARIABLES
    \* ---- Model.generate ----
    gpc,              \* "idle" | "loop" | "done": position in generate
    inspiration,      \* [given |-> BOOLEAN, frames |-> Seq(Frame)]
    length,           \* the length argument
    total_len,        \* l.331
    results,          \* l.333
    states,           \* l.335 / l.354: [none |-> BOOLEAN, val |-> state]
    current_note,     \* l.338
    current_beat,     \* l.339
    current_progress, \* l.340
    i,                \* loop index of l.342
    feed_dict,        \* the feed dict of the latest sess.run (l.344-352)
    \* ---- Model.train ----
    tpc,              \* "epoch" | "seq" | "win" | "done": position in train
    num_epochs,       \* argument
    train_seqs,       \* argument: a list of lists of batch windows
    epoch,            \* l.263
    order,            \* l.270
    pos,              \* how many entries of order the loop of l.275 has taken
    seq_i,            \* the i of l.275: index of the current sequence
    win,              \* how many windows of seq the loop of l.280 has taken
    train_states,     \* the states of l.278 / l.294
    train_feed,       \* the feed dict of the latest step (l.282-292)
    total_steps,      \* l.258
    no_improvement,   \* l.260
    best_fscore,      \* l.261
    f1_score,         \* l.266
    step,             \* l.267
    params,           \* the model parameters: how many updates were applied
    checkpoint,       \* the parameters held by model_file, -1 when unwritten
    saves,            \* number of saver.save calls
    \* ---- stagger ----
    spc,              \* "start" | "returned" | "raised"
    data,             \* argument
    time_steps,       \* argument
    dataX,            \* l.376
    dataY,            \* l.376
    \* ---- time_axis_block ----
    apc,              \* "start" | "loop" | "done"
    x,                \* the note input of one batch entry and time step
    padded,           \* x after l.100
    pitch_class_bins, \* l.96
    ai,               \* the i of l.104
    outs              \* l.94: the per-pitch inputs built so far

gvars == <<gpc, inspiration, length, total_len, results, states,
           current_note, current_beat, current_progress, i, feed_dict>>

tvars == <<tpc, num_epochs, train_seqs, epoch, order, pos, seq_i, win,
           train_states, train_feed, total_steps, no_improvement, best_fscore,
           f1_score, step, params, checkpoint, saves>>

svars == <<spc, data, time_steps, dataX, dataY>>

avars == <<apc, x, padded, pitch_class_bins, ai, outs>>

vars == <<gvars, tvars, svars, avars>>

----------------------------------------------------------------------------
(* Bounds of the model *)

\* Notes per octave and number of octaves; the program takes them from the
\* imports of l.8-11, the model keeps them small.
OCTAVE == 3
NUM_OCTAVES == 2
\* Steps per bar, likewise.
NOTES_PER_BAR == 2
\* Frames drawn as inputs or samples differ from silence only in the lowest
\* VaryingNotes notes.
VaryingNotes == 1
\* generate: largest length argument, longest inspiration.
MaxLength == 2
MaxInspiration == 2

\* train: most sequences, most windows per sequence and most epochs of the
\* short runs; the cumulative F1 of an epoch stays at most MaxF1.
MaxSeqs == 2
MaxWindows == 2
MaxEpochs == 1
MaxF1 == 1
\* stagger: longest frame sequence and largest time_steps of the short cases.
MaxFrames == 4
MaxTimeSteps == 2

----------------------------------------------------------------------------
(* Frames, features and the recurrent state *)

\* l.14; the slices of l.96 and the assertion of l.124 need a whole number
\* of octaves.
NUM_NOTES == NUM_OCTAVES * OCTAVE

Frame == [1..NUM_NOTES -> {0, 1}]

\* np.zeros(NUM_NOTES)
ZeroFrame == [n \in 1..NUM_NOTES |-> 0]

BoundedFrames == {f \in Frame : \A n \in 1..NUM_NOTES : n > VaryingNotes => f[n] = 0}

\* Sequences over S of length at most n.
RECURSIVE SeqsUpTo(_, _)
SeqsUpTo(S, n) ==
    IF n = 0 THEN {<<>>}
    ELSE LET shorter == SeqsUpTo(S, n - 1)
         IN  shorter \cup {Append(s, e) : s \in {t \in shorter : Len(t) = n - 1}, e \in S}

\* dataset.compute_beat: the cyclic position of a step within its bar.
compute_beat(beat, notes_in_bar) == beat % notes_in_bar

\* dataset.compute_completion: the position of a step within the piece, the
\* ratio beat / len_melody kept as numerator and denominator.
compute_completion(beat, len_melody) == <<beat, len_melody>>

\* `states = [None for _ in self.init_states]`
NoneStates == [none |-> TRUE, val |-> <<>>]

\* cell.zero_state (l.37): what a recurrent unit starts from when its
\* init_state placeholder is not fed.
ZeroState == <<>>

\* The value init_states take in a run: the fed state if one is fed
\* (l.290-292, l.350-352), else the zero state.
InitStateOf(s) == IF s.none THEN ZeroState ELSE s.val

\* The final state of a run (dynamic_rnn, l.38): a function of the initial
\* state and of the inputs of the run, kept as the trajectory of inputs.
FinalState(init_state, input) == Append(init_state, input)

----------------------------------------------------------------------------
(* The parts of the program that a specification leaves at rest *)

NoFeed == [note_in |-> ZeroFrame, beat_in |-> 0, progress_in |-> <<0, 0>>,
           init_state |-> ZeroState]

GenIdle ==
    /\ gpc = "idle"
    /\ inspiration = [given |-> FALSE, frames |-> <<>>]
    /\ length = 0
    /\ total_len = 0
    /\ results = <<>>
    /\ states = NoneStates
    /\ current_note = ZeroFrame
    /\ current_beat = 0
    /\ current_progress = <<0, 0>>
    /\ i = 0
    /\ feed_dict = NoFeed

TrainIdle ==
    /\ tpc = "done"
    /\ num_epochs = 0
    /\ train_seqs = <<>>
    /\ epoch = 0
    /\ order = <<>>
    /\ pos = 0
    /\ seq_i = 0
    /\ win = 0
    /\ train_states = NoneStates
    /\ train_feed = [window |-> <<0, 0>>, init_state |-> ZeroState]
    /\ total_steps = 0
    /\ no_improvement = 0
    /\ best_fscore = 0
    /\ f1_score = 0
    /\ step = 0
    /\ params = 0
    /\ checkpoint = -1
    /\ saves = 0

StaggerIdle ==
    /\ spc = "returned"
    /\ data = <<>>
    /\ time_steps = 0
    /\ dataX = <<>>
    /\ dataY = <<>>

AxisIdle ==
    /\ apc = "done"
    /\ x = ZeroFrame
    /\ padded = <<>>
    /\ pitch_class_bins = <<>>
    /\ ai = 0
    /\ outs = <<>>

----------------------------------------------------------------------------
(* Model.generate, l.330-368 *)

Inspirations ==
    {[given |-> FALSE, frames |-> <<>>]}
    \cup {[given |-> TRUE, frames |-> s] : s \in SeqsUpTo(BoundedFrames, MaxInspiration)}

GenInit == GenIdle /\ TrainIdle /\ StaggerIdle /\ AxisIdle

\* l.330-340: entry of generate up to the loop; main calls generate once per
\* composition (l.440-442), each call on fresh locals.
GenerateCall ==
    /\ gpc \in {"idle", "done"}
    /\ \E insp \in Inspirations, len \in 0..MaxLength :
        /\ inspiration' = insp
        /\ length' = len
        /\ total_len' = len + (IF insp.given THEN Len(insp.frames) ELSE 0)
        /\ current_progress' =
               compute_completion(0, len + (IF insp.given THEN Len(insp.frames) ELSE 0))
    /\ results' = <<>>
    /\ states' = NoneStates
    /\ current_note' = ZeroFrame
    /\ current_beat' = compute_beat(0, NOTES_PER_BAR)
    /\ i' = 0
    /\ feed_dict' = NoFeed
    /\ gpc' = "loop"
    /\ UNCHANGED <<tvars, svars, avars>>

\* GenerateStep with the priming frames recorded in the output as well.
GenerateStep_EmitsPriming ==
    /\ gpc = "loop"
    /\ i < total_len
    /\ LET fd == [note_in |-> current_note,
                  beat_in |-> current_beat,
                  progress_in |-> current_progress,
                  init_state |-> InitStateOf(states)]
       IN  /\ feed_dict' = fd
           /\ states' = [none |-> FALSE, val |-> FinalState(fd.init_state, fd.note_in)]
    /\ IF inspiration.given /\ i < Len(inspiration.frames)
         THEN /\ current_note' = inspiration.frames[i + 1]
              /\ results' = Append(results, inspiration.frames[i + 1])
         ELSE \E sampled \in BoundedFrames :
              /\ current_note' = sampled
              /\ results' = Append(results, sampled)
    /\ i' = i + 1
    /\ UNCHANGED <<gpc, inspiration, length, total_len, current_beat,
                   current_progress>>
    /\ UNCHANGED <<tvars, svars, avars>>

\* GenerateStep with the final states of the run dropped, so that every run
\* starts from the zero state.
GenerateStep_DropsState ==
    /\ gpc = "loop"
    /\ i < total_len
    /\ LET fd == [note_in |-> current_note,
                  beat_in |-> current_beat,
                  progress_in |-> current_progress,
                  init_state |-> InitStateOf(states)]
       IN  /\ feed_dict' = fd
           /\ states' = NoneStates
    /\ IF inspiration.given /\ i < Len(inspiration.frames)
         THEN /\ current_note' = inspiration.frames[i + 1]
              /\ results' = results
         ELSE \E sampled \in BoundedFrames :
              /\ current_note' = sampled
              /\ results' = Append(results, sampled)
    /\ i' = i + 1
    /\ UNCHANGED <<gpc, inspiration, length, total_len, current_beat,
                   current_progress>>
    /\ UNCHANGED <<tvars, svars, avars>>

\* l.342-367: one iteration of the loop: the run of the model on the current
\* note, beat and progress, then the choice of the next note.
GenerateStep ==
    /\ gpc = "loop"
    /\ i < total_len
    /\ LET fd == [note_in |-> current_note,
                  beat_in |-> current_beat,
                  progress_in |-> current_progress,
                  init_state |-> InitStateOf(states)]
       IN  /\ feed_dict' = fd
           /\ states' = [none |-> FALSE, val |-> FinalState(fd.init_state, fd.note_in)]
    /\ IF inspiration.given /\ i < Len(inspiration.frames)
         THEN /\ current_note' = inspiration.frames[i + 1]
              /\ results' = results
         ELSE \E sampled \in BoundedFrames :
              /\ current_note' = sampled
              /\ results' = Append(results, sampled)
    /\ i' = i + 1
    /\ UNCHANGED <<gpc, inspiration, length, total_len, current_beat,
                   current_progress>>
    /\ UNCHANGED <<tvars, svars, avars>>

\* l.368: the loop is over, results is returned.
GenerateReturn ==
    /\ gpc = "loop"
    /\ i >= total_len
    /\ gpc' = "done"
    /\ UNCHANGED <<inspiration, length, total_len, results, states,
                   current_note, current_beat, current_progress, i, feed_dict>>
    /\ UNCHANGED <<tvars, svars, avars>>

GenNext == GenerateCall \/ GenerateStep \/ GenerateReturn

SpecGenerate == GenInit /\ [][GenNext]_vars

\* Length of the inspiration prefix (0 when none is given).
PrefixLen == IF inspiration.given THEN Len(inspiration.frames) ELSE 0

\* C1: generate runs exactly length + k model steps and returns exactly
\* length sampled frames: after i steps the result list holds max(0, i - k)
\* frames; a step inside the prefix leaves the inspiration frame as next
\* input and appends nothing, a later step appends the frame that is also
\* the next input; on return i = length + k and Len(results) = length (empty
\* when length = 0).
C1_GenerateEmitsLengthFrames ==
    gpc \in {"loop", "done"} =>
        /\ i <= length + PrefixLen
        /\ Len(results) = (IF i > PrefixLen THEN i - PrefixLen ELSE 0)
        /\ (i > 0 /\ i <= PrefixLen) => current_note = inspiration.frames[i]
        /\ i > PrefixLen => current_note = results[Len(results)]
        /\ gpc = "done" =>
               /\ i = length + PrefixLen
               /\ Len(results) = length
               /\ length = 0 => results = <<>>

C1_Witness ==
    /\ gpc = "done"
    /\ inspiration.given
    /\ Len(inspiration.frames) = 2
    /\ length = 2
    /\ Len(results) = 2

\* C2: within one call the state is reset only before the first step: the
\* first step starts every unit from the zero state, every later step is fed
\* exactly the final state the previous step returned, and a new call starts
\* again from the reset state.
C2_StateNeverResetMidGeneration ==
    [][/\ (i' = i + 1 /\ i = 0) => feed_dict'.init_state = ZeroState
       /\ (i' = i + 1 /\ i > 0) =>
              /\ ~states.none
              /\ feed_dict'.init_state = FinalState(feed_dict.init_state, feed_dict.note_in)
       /\ (gpc # "loop" /\ gpc' = "loop") => states' = NoneStates]_vars

C2_Witness ==
    /\ gpc = "loop"
    /\ i = 3
    /\ Len(feed_dict.init_state) = 2
    /\ ~states.none

\* C3: at every step the beat and progress fed to the model are those of the
\* current step index (after i steps the latest run was step i - 1) and of
\* the total length.
C3_FeaturesOfCurrentStep ==
    (gpc \in {"loop", "done"} /\ i > 0) =>
        /\ feed_dict.beat_in = compute_beat(i - 1, NOTES_PER_BAR)
        /\ feed_dict.progress_in = compute_completion(i - 1, total_len)

----------------------------------------------------------------------------
(* Model.train, l.256-328 *)

\* `if total_steps % 1000 == 0`, l.313
CheckInterval == 1000
\* l.259
patience == 10
\* The number of epochs main trains for, l.431
MainEpochs == 1000

\* The batch windows of a list of sequences with the given numbers of
\* windows: window w of sequence s is the pair <<s, w>>.
WindowsOf(shape) ==
    [s \in 1..Len(shape) |-> [w \in 1..shape[s] |-> <<s, w>>]]

\* The short runs, and one run of the length main asks for, long enough for
\* the no-improvement counter to pass the patience.
LongRunShape == <<6, 5>>

TrainInputs ==
    ((0..MaxEpochs) \X SeqsUpTo(0..MaxWindows, MaxSeqs))
    \cup {<<MainEpochs, LongRunShape>>}

\* np.random.permutation(n), as the set of its possible values
permutation(n) ==
    {p \in [1..n -> 1..n] : \A a, b \in 1..n : p[a] = p[b] => a = b}

\* The mean weighted F1 of one step lies in [0, 1]; its two ends are kept.
F1Values == {0, 1}

\* l.256-261: entry of train.
TrainInit ==
    /\ \E inp \in TrainInputs :
        /\ num_epochs = inp[1]
        /\ train_seqs = WindowsOf(inp[2])
    /\ tpc = "epoch"
    /\ epoch = 0
    /\ order = <<>>
    /\ pos = 0
    /\ seq_i = 0
    /\ win = 0
    /\ train_states = NoneStates
    /\ train_feed = [window |-> <<0, 0>>, init_state |-> ZeroState]
    /\ total_steps = 0
    /\ no_improvement = 0
    /\ best_fscore = 0
    /\ f1_score = 0
    /\ step = 0
    /\ params = 0
    /\ checkpoint = -1
    /\ saves = 0

\* l.263-272: an epoch begins.
TrainEpochBegin ==
    /\ tpc = "epoch"
    /\ epoch < num_epochs
    /\ f1_score' = 0
    /\ step' = 0
    /\ order' \in permutation(Len(train_seqs))
    /\ pos' = 0
    /\ tpc' = "seq"
    /\ UNCHANGED <<num_epochs, train_seqs, epoch, seq_i, win, train_states,
                   train_feed, total_steps, no_improvement, best_fscore, params,
                   checkpoint, saves>>
    /\ UNCHANGED <<gvars, svars, avars>>

\* TrainSeqBegin without the reset of l.278: the state of the previous
\* sequence is carried into the next one.
TrainSeqBegin_KeepsState ==
    /\ tpc = "seq"
    /\ pos < Len(order)
    /\ seq_i' = order[pos + 1]
    /\ pos' = pos + 1
    /\ train_states' = train_states
    /\ win' = 0
    /\ tpc' = "win"
    /\ UNCHANGED <<num_epochs, train_seqs, epoch, order, train_feed, total_steps,
                   no_improvement, best_fscore, f1_score, step, params,
                   checkpoint, saves>>
    /\ UNCHANGED <<gvars, svars, avars>>

\* l.275-278: the next sequence of the epoch is taken and the state reset.
TrainSeqBegin ==
    /\ tpc = "seq"
    /\ pos < Len(order)
    /\ seq_i' = order[pos + 1]
    /\ pos' = pos + 1
    /\ train_states' = NoneStates
    /\ win' = 0
    /\ tpc' = "win"
    /\ UNCHANGED <<num_epochs, train_seqs, epoch, order, train_feed, total_steps,
                   no_improvement, best_fscore, f1_score, step, params,
                   checkpoint, saves>>
    /\ UNCHANGED <<gvars, svars, avars>>

\* TrainStep with the comparison of l.315 as >=.
TrainStep_SavesOnTie ==
    /\ tpc = "win"
    /\ win < Len(train_seqs[seq_i])
    /\ \E f1 \in F1Values :
        /\ f1_score + f1 <= MaxF1
        /\ LET fd == [window |-> train_seqs[seq_i][win + 1],
                      init_state |-> InitStateOf(train_states)]
               cumulative == f1_score + f1
           IN  /\ train_feed' = fd
               /\ train_states' =
                      [none |-> FALSE, val |-> FinalState(fd.init_state, fd.window)]
               /\ params' = params + 1
               /\ step' = step + 1
               /\ f1_score' = cumulative
               /\ IF total_steps % CheckInterval = 0
                    THEN IF cumulative >= best_fscore
                           THEN /\ checkpoint' = params + 1
                                /\ saves' = saves + 1
                                /\ best_fscore' = cumulative
                                /\ no_improvement' = 0
                                /\ total_steps' = total_steps + 1
                                /\ win' = win + 1
                                /\ tpc' = "win"
                           ELSE /\ no_improvement' = no_improvement + 1
                                /\ UNCHANGED <<checkpoint, saves, best_fscore>>
                                /\ IF no_improvement + 1 > patience
                                     THEN /\ tpc' = "seq"
                                          /\ UNCHANGED <<total_steps, win>>
                                     ELSE /\ total_steps' = total_steps + 1
                                          /\ win' = win + 1
                                          /\ tpc' = "win"
                    ELSE /\ total_steps' = total_steps + 1
                         /\ win' = win + 1
                         /\ tpc' = "win"
                         /\ UNCHANGED <<checkpoint, saves, best_fscore, no_improvement>>
    /\ UNCHANGED <<num_epochs, train_seqs, epoch, order, pos, seq_i>>
    /\ UNCHANGED <<gvars, svars, avars>>

\* TrainStep with total_steps incremented before the break of l.323.
TrainStep_CountsAbortedStep ==
    /\ tpc = "win"
    /\ win < Len(train_seqs[seq_i])
    /\ \E f1 \in F1Values :
        /\ f1_score + f1 <= MaxF1
        /\ LET fd == [window |-> train_seqs[seq_i][win + 1],
                      init_state |-> InitStateOf(train_states)]
               cumulative == f1_score + f1
           IN  /\ train_feed' = fd
               /\ train_states' =
                      [none |-> FALSE, val |-> FinalState(fd.init_state, fd.window)]
               /\ params' = params + 1
               /\ step' = step + 1
               /\ f1_score' = cumulative
               /\ IF total_steps % CheckInterval = 0
                    THEN IF cumulative > best_fscore
                           THEN /\ checkpoint' = params + 1
                                /\ saves' = saves + 1
                                /\ best_fscore' = cumulative
                                /\ no_improvement' = 0
                                /\ total_steps' = total_steps + 1
                                /\ win' = win + 1
                                /\ tpc' = "win"
                           ELSE /\ no_improvement' = no_improvement + 1
                                /\ UNCHANGED <<checkpoint, saves, best_fscore>>
                                /\ IF no_improvement + 1 > patience
                                     THEN /\ tpc' = "seq"
                                          /\ total_steps' = total_steps + 1
                                          /\ UNCHANGED win
                                     ELSE /\ total_steps' = total_steps + 1
                                          /\ win' = win + 1
                                          /\ tpc' = "win"
                    ELSE /\ total_steps' = total_steps + 1
                         /\ win' = win + 1
                         /\ tpc' = "win"
                         /\ UNCHANGED <<checkpoint, saves, best_fscore, no_improvement>>
    /\ UNCHANGED <<num_epochs, train_seqs, epoch, order, pos, seq_i>>
    /\ UNCHANGED <<gvars, svars, avars>>

\* l.280-325: one optimization step on the next window of the sequence,
\* with the early-stopping check of l.313-323.
TrainStep ==
    /\ tpc = "win"
    /\ win < Len(train_seqs[seq_i])
    /\ \E f1 \in F1Values :
        /\ f1_score + f1 <= MaxF1
        /\ LET fd == [window |-> train_seqs[seq_i][win + 1],
                      init_state |-> InitStateOf(train_states)]
               cumulative == f1_score + f1
           IN  /\ train_feed' = fd
               /\ train_states' =
                      [none |-> FALSE, val |-> FinalState(fd.init_state, fd.window)]
               /\ params' = params + 1
               /\ step' = step + 1
               /\ f1_score' = cumulative
               /\ IF total_steps % CheckInterval = 0
                    THEN IF cumulative > best_fscore
                           THEN /\ checkpoint' = params + 1
                                /\ saves' = saves + 1
                                /\ best_fscore' = cumulative
                                /\ no_improvement' = 0
                                /\ total_steps' = total_steps + 1
                                /\ win' = win + 1
                                /\ tpc' = "win"
                           ELSE /\ no_improvement' = no_improvement + 1
                                /\ UNCHANGED <<checkpoint, saves, best_fscore>>
                                /\ IF no_improvement + 1 > patience
                                     THEN /\ tpc' = "seq"
                                          /\ UNCHANGED <<total_steps, win>>
                                     ELSE /\ total_steps' = total_steps + 1
                                          /\ win' = win + 1
                                          /\ tpc' = "win"
                    ELSE /\ total_steps' = total_steps + 1
                         /\ win' = win + 1
                         /\ tpc' = "win"
                         /\ UNCHANGED <<checkpoint, saves, best_fscore, no_improvement>>
    /\ UNCHANGED <<num_epochs, train_seqs, epoch, order, pos, seq_i>>
    /\ UNCHANGED <<gvars, svars, avars>>

\* l.280: the windows of the sequence are exhausted.
TrainSeqEnd ==
    /\ tpc = "win"
    /\ win >= Len(train_seqs[seq_i])
    /\ tpc' = "seq"
    /\ UNCHANGED <<num_epochs, train_seqs, epoch, order, pos, seq_i, win,
                   train_states, train_feed, total_steps, no_improvement,
                   best_fscore, f1_score, step, params, checkpoint, saves>>
    /\ UNCHANGED <<gvars, svars, avars>>

\* l.275: the sequences of the epoch are exhausted.
TrainEpochEnd ==
    /\ tpc = "seq"
    /\ pos >= Len(order)
    /\ epoch' = epoch + 1
    /\ tpc' = "epoch"
    /\ UNCHANGED <<num_epochs, train_seqs, order, pos, seq_i, win, train_states,
                   train_feed, total_steps, no_improvement, best_fscore, f1_score,
                   step, params, checkpoint, saves>>
    /\ UNCHANGED <<gvars, svars, avars>>

\* TrainFinish without the save of l.328.
TrainFinish_NoSave ==
    /\ tpc = "epoch"
    /\ epoch >= num_epochs
    /\ UNCHANGED <<checkpoint, saves>>
    /\ tpc' = "done"
    /\ UNCHANGED <<num_epochs, train_seqs, epoch, order, pos, seq_i, win,
                   train_states, train_feed, total_steps, no_improvement,
                   best_fscore, f1_score, step, params>>
    /\ UNCHANGED <<gvars, svars, avars>>

\* l.327-328: the epochs are over, the parameters are saved.
TrainFinish ==
    /\ tpc = "epoch"
    /\ epoch >= num_epochs
    /\ checkpoint' = params
    /\ saves' = saves + 1
    /\ tpc' = "done"
    /\ UNCHANGED <<num_epochs, train_seqs, epoch, order, pos, seq_i, win,
                   train_states, train_feed, total_steps, no_improvement,
                   best_fscore, f1_score, step, params>>
    /\ UNCHANGED <<gvars, svars, avars>>

TrainNext ==
    \/ TrainEpochBegin
    \/ TrainSeqBegin
    \/ TrainStep
    \/ TrainSeqEnd
    \/ TrainEpochEnd
    \/ TrainFinish

\* TrainInit with the rest of the program at rest.
InitTrain == TrainInit /\ GenIdle /\ StaggerIdle /\ AxisIdle

SpecTrain == InitTrain /\ [][TrainNext]_vars

\* The trajectory of the first n windows of sequence sq, in their order.
WindowsUpTo(sq, n) == [k \in 1..n |-> <<sq, k>>]

\* C6: in every epoch and for every sequence the state is reset before the
\* first window, the windows are taken in their order, and every later step
\* is fed the final state of the step before it in the same sequence: the
\* state fed with window w of a sequence is the trajectory of the windows
\* 1..w-1 of that sequence and of nothing else, and the state held after win
\* windows is the trajectory of exactly those windows (none before the first).
C6_TrainStateWithinSequence ==
    /\ params > 0 =>
          /\ train_feed.window[1] \in 1..Len(train_seqs)
          /\ train_feed.init_state =
                 WindowsUpTo(train_feed.window[1], train_feed.window[2] - 1)
    /\ tpc = "win" =>
          /\ win = 0 => train_states = NoneStates
          /\ win > 0 =>
                /\ ~train_states.none
                /\ train_states.val = WindowsUpTo(seq_i, win)
                /\ train_feed.window = <<seq_i, win>>
                /\ train_states.val =
                       FinalState(train_feed.init_state, train_feed.window)

C6_Witness ==
    /\ tpc = "win"
    /\ epoch = 1
    /\ pos = 2
    /\ win = 2
    /\ Len(train_feed.init_state) = 1

\* C7: a step whose total_steps is a multiple of CheckInterval either finds
\* the cumulative F1 strictly above the best one, and then saves, records it
\* as best and zeroes the counter; or saves nothing, increments the counter
\* and leaves the loop over the windows iff the counter now exceeds the
\* patience. Any other step writes no checkpoint and leaves the counter.
C7_CheckEveryInterval ==
    [][params' = params + 1 =>
        IF total_steps % CheckInterval = 0
          THEN IF f1_score' > best_fscore
                 THEN /\ saves' = saves + 1
                      /\ checkpoint' = params'
                      /\ best_fscore' = f1_score'
                      /\ no_improvement' = 0
                      /\ tpc' = "win"
                 ELSE /\ saves' = saves
                      /\ checkpoint' = checkpoint
                      /\ best_fscore' = best_fscore
                      /\ no_improvement' = no_improvement + 1
                      /\ (tpc' = "seq") <=> (no_improvement' > patience)
          ELSE /\ saves' = saves
               /\ checkpoint' = checkpoint
               /\ no_improvement' = no_improvement
               /\ tpc' = "win"]_vars

C7_Witness ==
    /\ tpc = "seq"
    /\ no_improvement = patience + 1
    /\ total_steps = patience * CheckInterval
    /\ win < Len(train_seqs[seq_i])

\* C8: a run of train that has ended has just saved the parameters it ended
\* with, whatever the early stopping did; with no epoch or no sequence no
\* step was run and that save of the initial parameters is the only one.
C8_SaveAtEnd ==
    /\ tpc = "done" =>
          /\ saves >= 1
          /\ checkpoint = params
    /\ (num_epochs = 0 \/ train_seqs = <<>>) =>
          /\ params = 0
          /\ saves = (IF tpc = "done" THEN 1 ELSE 0)
          /\ checkpoint = (IF tpc = "done" THEN 0 ELSE -1)

C8_Witness ==
    /\ tpc = "done"
    /\ no_improvement > patience
    /\ params > patience * CheckInterval
    /\ saves = 1
    /\ checkpoint = params

\* C10: a step that leaves the loop over the windows does not increment
\* total_steps, which stays on a multiple of CheckInterval with the counter
\* above the patience; while the counter is above the patience no sequence
\* gets past its first step, and only a check that finds the cumulative F1
\* strictly above the best one brings the counter down. Any other step
\* increments total_steps by exactly 1.
C10_AbortKeepsCheckStep ==
    /\ [](no_improvement > patience =>
             /\ total_steps % CheckInterval = 0
             /\ tpc = "win" => win = 0)
    /\ [][/\ params' = params + 1 =>
               IF tpc' = "seq"
                 THEN /\ total_steps' = total_steps
                      /\ no_improvement' > patience
                 ELSE total_steps' = total_steps + 1
          /\ (no_improvement > patience /\ no_improvement' <= patience) =>
               /\ params' = params + 1
               /\ f1_score' > best_fscore
               /\ saves' = saves + 1]_vars

C10_Witness ==
    /\ tpc = "seq"
    /\ no_improvement = patience + 3
    /\ total_steps = patience * CheckInterval
    /\ win = 0
    /\ epoch < num_epochs

----------------------------------------------------------------------------
(* stagger, l.375-384 *)

\* l.16
TIME_STEPS == 16

Min(a, b) == IF a <= b THEN a ELSE b

\* The Python slice s[lo:hi] of a list, for 0 <= lo: the elements with
\* 0-based index lo .. hi-1, cut at the end of the list.
Slice(s, lo, hi) == SubSeq(s, lo + 1, Min(hi, Len(s)))

\* range(n), as the set of its values
Range(n) == 0..(n - 1)

\* l.379: the zero frame is put in front of the data.
WithFirstNote(d) == <<ZeroFrame>> \o d

\* staggerY with the target window taken at the offset of the input window.
staggerY_NoShift(d, steps) ==
    LET padded_d == WithFirstNote(d)
    IN  [w \in 1..Cardinality(Range(Len(padded_d) - steps - 1)) |->
            Slice(padded_d, w - 1, w - 1 + steps)]

\* l.381-382: the input windows; window w of the model is the i = w - 1 of
\* the loop.
staggerX(d, steps) ==
    LET padded_d == WithFirstNote(d)
    IN  [w \in 1..Cardinality(Range(Len(padded_d) - steps - 1)) |->
            Slice(padded_d, w - 1, w - 1 + steps)]

\* l.381, l.383: the target windows.
staggerY(d, steps) ==
    LET padded_d == WithFirstNote(d)
    IN  [w \in 1..Cardinality(Range(Len(padded_d) - steps - 1)) |->
            Slice(padded_d, w, w + steps)]

\* Sequences of TIME_STEPS + 1 frames, silent but for at most one frame.
ScenarioData ==
    {[k \in 1..(TIME_STEPS + 1) |-> IF k = j THEN f ELSE ZeroFrame] :
        j \in 1..(TIME_STEPS + 1), f \in BoundedFrames}

StaggerInit ==
    /\ spc = "start"
    /\ \/ /\ data \in SeqsUpTo(BoundedFrames, MaxFrames)
          /\ time_steps \in 1..MaxTimeSteps
       \/ /\ data \in ScenarioData
          /\ time_steps = TIME_STEPS
    /\ dataX = <<>>
    /\ dataY = <<>>

\* l.375-384 on a sequence with a first frame.
Stagger ==
    /\ spc = "start"
    /\ Len(data) > 0
    /\ dataX' = staggerX(data, time_steps)
    /\ dataY' = staggerY(data, time_steps)
    /\ spc' = "returned"
    /\ UNCHANGED <<data, time_steps>>
    /\ UNCHANGED <<gvars, tvars, avars>>

\* l.379 on an empty sequence: data[0] raises IndexError.
StaggerRaise ==
    /\ spc = "start"
    /\ Len(data) = 0
    /\ spc' = "raised"
    /\ UNCHANGED <<data, time_steps, dataX, dataY>>
    /\ UNCHANGED <<gvars, tvars, avars>>

StaggerNext == Stagger \/ StaggerRaise

\* StaggerInit with the rest of the program at rest.
InitStagger == StaggerInit /\ GenIdle /\ TrainIdle /\ AxisIdle

SpecStagger == InitStagger /\ [][StaggerNext]_vars

\* C4: stagger returns as many target windows as input windows, each of
\* time_steps frames; the first frame of the first input window is the zero
\* frame; a target window is its input window one step later; and target
\* window w is input window w + 1 wherever that one exists.
C4_StaggerShiftedWindows ==
    spc = "returned" =>
        /\ Len(dataX) = Len(dataY)
        /\ \A w \in 1..Len(dataX) :
              /\ Len(dataX[w]) = time_steps
              /\ Len(dataY[w]) = time_steps
              /\ \A j \in 1..(time_steps - 1) : dataY[w][j] = dataX[w][j + 1]
              /\ w < Len(dataX) => dataY[w] = dataX[w + 1]
        /\ Len(dataX) > 0 => dataX[1][1] = ZeroFrame

C4_Witness ==
    /\ spc = "returned"
    /\ time_steps = 2
    /\ Len(dataX) = 2
    /\ dataX[1] # dataY[1]
    /\ dataY[1][1] # dataY[1][2]

\* The frames recovered from the windows: the first input window without
\* the zero frame in front, then the last frame of every target window.
Unstagger(X, Y) ==
    IF Len(X) = 0 THEN <<>>
    ELSE Tail(X[1]) \o [w \in 1..Len(Y) |-> Y[w][Len(Y[w])]]

\* C5: for a sequence of more than time_steps frames, undoing stagger on its
\* windows gives back every frame of the sequence in order; 17 frames with
\* TIME_STEPS = 16 give exactly 1 window pair, which covers them all.
C5_StaggerRoundTrip ==
    (spc = "returned" /\ Len(data) > time_steps) =>
        /\ Unstagger(dataX, dataY) = data
        /\ (Len(data) = 17 /\ time_steps = TIME_STEPS) => Len(dataX) = 1

----------------------------------------------------------------------------
(* time_axis_block, l.93-128, for one batch entry and one time step *)

\* util.one_hot: the vector of length n with a 1 at 0-based index k.
one_hot(k, n) == [j \in 1..n |-> IF j = k + 1 THEN 1 ELSE 0]

RECURSIVE SumOver(_, _)
SumOver(f, S) ==
    IF S = {} THEN 0
    ELSE LET e == CHOOSE e \in S : TRUE IN f[e] + SumOver(f, S \ {e})

Zeros(n) == [j \in 1..n |-> 0]

AxisInit ==
    /\ apc = "start"
    /\ x \in Frame
    /\ padded = <<>>
    /\ pitch_class_bins = <<>>
    /\ ai = 0
    /\ outs = <<>>

\* l.96-100: the pitch class bins of the unpadded input, then the padding
\* by one octave on each side.
AxisPad ==
    /\ apc = "start"
    /\ pitch_class_bins' =
           [c \in 1..OCTAVE |->
               SumOver(x, {o * OCTAVE + c : o \in Range(NUM_OCTAVES)})]
    /\ padded' = Zeros(OCTAVE) \o x \o Zeros(OCTAVE)
    /\ ai' = OCTAVE
    /\ outs' = <<>>
    /\ apc' = "loop"
    /\ UNCHANGED x
    /\ UNCHANGED <<gvars, tvars, svars>>

\* l.104-116: the input of the recurrent unit of one pitch; the position
\* i / (NUM_NOTES - 1) is kept as numerator and denominator.
AxisStep ==
    /\ apc = "loop"
    /\ ai < NUM_NOTES + OCTAVE
    /\ outs' = Append(outs,
                      [window |-> Slice(padded, ai - OCTAVE, ai + OCTAVE + 1),
                       position |-> <<ai, NUM_NOTES - 1>>,
                       pitch_class |-> one_hot(ai % OCTAVE, OCTAVE),
                       bins |-> pitch_class_bins])
    /\ ai' = ai + 1
    /\ UNCHANGED <<apc, x, padded, pitch_class_bins>>
    /\ UNCHANGED <<gvars, tvars, svars>>

\* l.119-127: the loop is over, the outputs are stacked.
AxisReturn ==
    /\ apc = "loop"
    /\ ai >= NUM_NOTES + OCTAVE
    /\ apc' = "done"
    /\ UNCHANGED <<x, padded, pitch_class_bins, ai, outs>>
    /\ UNCHANGED <<gvars, tvars, svars>>

AxisNext == AxisPad \/ AxisStep \/ AxisReturn

\* AxisInit with the rest of the program at rest.
InitTimeAxis == AxisInit /\ GenIdle /\ TrainIdle /\ StaggerIdle

SpecTimeAxis == InitTimeAxis /\ [][AxisNext]_vars

\* The note of the input at 0-based pitch q, silence outside the range.
NoteAt(q) == IF q >= 0 /\ q < NUM_NOTES THEN x[q + 1] ELSE 0

\* C9: the input built for pitch p (the entry p + 1 of outs) holds the
\* window of width 2 * OCTAVE + 1 centred on pitch p, the position
\* p / (NUM_NOTES - 1), which lies in [0, 1], and the one-hot of p mod OCTAVE.
C9_PerPitchInput ==
    \A k \in 1..Len(outs) :
        LET pitch == k - 1
        IN  /\ outs[k].window = [j \in 1..(2 * OCTAVE + 1) |-> NoteAt(pitch - OCTAVE + j - 1)]
            /\ outs[k].pitch_class = one_hot(pitch % OCTAVE, OCTAVE)
            /\ outs[k].position[1] * (NUM_NOTES - 1) = pitch * outs[k].position[2]
            /\ outs[k].position[1] >= 0
            /\ outs[k].position[1] <= outs[k].position[2]

\* What the loop does establish: the window is centred on the pitch and the
\* pitch class is that of the pitch, since OCTAVE mod OCTAVE = 0; only the
\* position is taken from the padded index.
C9_WindowAndPitchClass ==
    \A k \in 1..Len(outs) :
        LET pitch == k - 1
        IN  /\ outs[k].window = [j \in 1..(2 * OCTAVE + 1) |-> NoteAt(pitch - OCTAVE + j - 1)]
            /\ outs[k].pitch_class = one_hot(pitch % OCTAVE, OCTAVE)

====
